---- MODULE Spec2Model ----
(***************************************************************************)
(* Model of backend/main.py: the time normaliser _to_24h_hhmm and the      *)
(* /ramadan handler get_ramadan.                                           *)
(*                                                                         *)
(* A Python str is a sequence of one-character strings.  A decoded JSON    *)
(* value is a record tagged by t: "absent" (the key is not in the dict),   *)
(* "null", "str", "num", "list", "obj".                                    *)
(***************************************************************************)
EXTENDS Integers, Sequences, FiniteSets, TLC

VARIABLES
    pc,            \* position of the /ramadan request in get_ramadan
    api_key,       \* os.getenv("ISLAMIC_API_KEY")
    query,         \* the request's lat and lon
    requests,      \* outbound GETs issued so far, each with its params
    resp,          \* what the outbound call gave (exception or response)
    payload,       \* resp.json()
    fasting_days,  \* payload["data"]["fasting"]
    out,           \* the list built by the loop
    status,        \* HTTP status of the reply (0: no reply yet)
    detail,        \* detail of the HTTPException, or of the 500 page
    time_str,      \* argument of a _to_24h_hhmm call
    norm,          \* what that call gave
    npc            \* position of that call

vars == <<pc, api_key, query, requests, resp, payload, fasting_days, out,
          status, detail, time_str, norm, npc>>

reqVars == <<pc, api_key, query, requests, resp, payload, fasting_days, out,
             status, detail>>

normVars == <<time_str, norm, npc>>

(***************************************************************************)
(* Characters                                                              *)
(***************************************************************************)
Digits == {"0", "1", "2", "3", "4", "5", "6", "7", "8", "9"}

DigitVal(c) ==
    CASE c = "0" -> 0 [] c = "1" -> 1 [] c = "2" -> 2 [] c = "3" -> 3
      [] c = "4" -> 4 [] c = "5" -> 5 [] c = "6" -> 6 [] c = "7" -> 7
      [] c = "8" -> 8 [] c = "9" -> 9

DigitChar(n) ==
    CASE n = 0 -> "0" [] n = 1 -> "1" [] n = 2 -> "2" [] n = 3 -> "3"
      [] n = 4 -> "4" [] n = 5 -> "5" [] n = 6 -> "6" [] n = 7 -> "7"
      [] n = 8 -> "8" [] n = 9 -> "9"

\* str.isspace() of one character, and the regex class \s
IsSpace(c) == c = " "

\* str.lower() of one character (re.IGNORECASE compares this way)
Lower(c) ==
    CASE c = "A" -> "a" [] c = "P" -> "p" [] c = "M" -> "m" [] c = "X" -> "x"
      [] OTHER -> c

AllDigits(s) == \A i \in 1..Len(s) : s[i] \in Digits

AllSpaces(s) == \A i \in 1..Len(s) : IsSpace(s[i])

\* int(s) of a string of decimal digits
RECURSIVE IntOf(_)
IntOf(s) ==
    IF s = <<>> THEN 0
    ELSE 10 * IntOf(SubSeq(s, 1, Len(s) - 1)) + DigitVal(s[Len(s)])

\* str(n) of a natural number
RECURSIVE Dec(_)
Dec(n) ==
    IF n < 10 THEN <<DigitChar(n)>>
    ELSE Dec(n \div 10) \o <<DigitChar(n % 10)>>

\* f"{n:02d}", and %H / %M of strftime
Format02d(n) == IF n < 10 THEN <<"0", DigitChar(n)>> ELSE Dec(n)

(***************************************************************************)
(* _to_24h_hhmm                                                            *)
(***************************************************************************)
RECURSIVE LStrip(_)
LStrip(s) ==
    IF s # <<>> /\ IsSpace(s[1]) THEN LStrip(Tail(s)) ELSE s

RECURSIVE RStrip(_)
RStrip(s) ==
    IF s # <<>> /\ IsSpace(s[Len(s)]) THEN RStrip(SubSeq(s, 1, Len(s) - 1))
    ELSE s

\* time_str.strip()
Strip(s) == RStrip(LStrip(s))

\* Variant of FullMatchHHMM: the fast path also demands hour <= 23, minute <= 59
FullMatchHHMM_Ranged(s) ==
    \E hl \in 1..2 :
        /\ Len(s) = hl + 3
        /\ AllDigits(SubSeq(s, 1, hl))
        /\ s[hl + 1] = ":"
        /\ AllDigits(SubSeq(s, hl + 2, hl + 3))
        /\ IntOf(SubSeq(s, 1, hl)) <= 23
        /\ IntOf(SubSeq(s, hl + 2, hl + 3)) <= 59

\* re.fullmatch(r"\d{1,2}:\d{2}", s)
FullMatchHHMM(s) ==
    \E hl \in 1..2 :
        /\ Len(s) = hl + 3
        /\ AllDigits(SubSeq(s, 1, hl))
        /\ s[hl + 1] = ":"
        /\ AllDigits(SubSeq(s, hl + 2, hl + 3))

\* index of the first ":" of s (s holds one)
ColonAt(s) == CHOOSE k \in 1..Len(s) : s[k] = ":" /\ \A j \in 1..(k - 1) : s[j] # ":"

\* hh, mm = s.split(":"); return f"{int(hh):02d}:{int(mm):02d}"
FastPath(s) ==
    LET k  == ColonAt(s)
        hh == SubSeq(s, 1, k - 1)
        mm == SubSeq(s, k + 1, Len(s))
    IN  Format02d(IntOf(hh)) \o <<":">> \o Format02d(IntOf(mm))

\* %I of strptime: 1[0-2]|0[1-9]|[1-9]
ReI(t) ==
    \/ Len(t) = 2 /\ t[1] = "1" /\ t[2] \in {"0", "1", "2"}
    \/ Len(t) = 2 /\ t[1] = "0" /\ t[2] \in Digits \ {"0"}
    \/ Len(t) = 1 /\ t[1] \in Digits \ {"0"}

\* %M of strptime: [0-5]\d|\d
ReM(t) ==
    \/ Len(t) = 2 /\ t[1] \in {"0", "1", "2", "3", "4", "5"} /\ t[2] \in Digits
    \/ Len(t) = 1 /\ t[1] \in Digits

\* %p of strptime: am|pm, letter case ignored
ReP(t) ==
    /\ Len(t) = 2
    /\ Lower(t[1]) \in {"a", "p"}
    /\ Lower(t[2]) = "m"

\* The matches of the compiled format "%I:%M %p",
\* (?P<I>...):(?P<M>...)\s+(?P<p>am|pm), at the start of s: the groups and the
\* end of the match.
FormatRegexMatch(s) ==
    { m \in [hl : 1..2, ml : 1..2, wl : 1..Len(s)] :
        /\ m.hl + 1 + m.ml + m.wl + 2 <= Len(s)
        /\ ReI(SubSeq(s, 1, m.hl))
        /\ s[m.hl + 1] = ":"
        /\ ReM(SubSeq(s, m.hl + 2, m.hl + 1 + m.ml))
        /\ AllSpaces(SubSeq(s, m.hl + m.ml + 2, m.hl + m.ml + 1 + m.wl))
        /\ ReP(SubSeq(s, m.hl + m.ml + m.wl + 2, m.hl + m.ml + m.wl + 3)) }

MatchEnd(m) == m.hl + m.ml + m.wl + 3

\* Variant of Unconverted: text after the match is ignored
Unconverted_Ignored(s, m) == FALSE

\* "unconverted data remains" of strptime: the match must end where s ends
Unconverted(s, m) == MatchEnd(m) # Len(s)

\* Variant of Hour24: 12 is treated like any other hour
Hour24_NoTwelve(hour, ampm) == IF ampm = "a" THEN hour ELSE hour + 12

\* The 24-hour hour from the %I hour and the %p group, as strptime computes it
Hour24(hour, ampm) ==
    IF ampm = "a"
    THEN (IF hour = 12 THEN 0 ELSE hour)
    ELSE (IF hour # 12 THEN hour + 12 ELSE hour)

NormOk(v) == [exc |-> "none", val |-> v]

NormRaise(e) == [exc |-> e, val |-> <<>>]

\* datetime.strptime(s, "%I:%M %p").strftime("%H:%M"), ValueError re-raised
Strptime12h(s) ==
    LET ms == FormatRegexMatch(s)
    IN  IF ms = {} THEN NormRaise("ValueError")
        ELSE LET m == CHOOSE x \in ms : TRUE
             IN  IF Unconverted(s, m) THEN NormRaise("ValueError")
                 ELSE LET hour   == IntOf(SubSeq(s, 1, m.hl))
                          minute == IntOf(SubSeq(s, m.hl + 2, m.hl + 1 + m.ml))
                          ampm   == Lower(s[MatchEnd(m) - 1])
                      IN  NormOk(Format02d(Hour24(hour, ampm)) \o <<":">>
                                 \o Format02d(minute))

\* _to_24h_hhmm(time_str) for a str
to_24h_hhmm(ts) ==
    LET s == Strip(ts)
    IN  IF FullMatchHHMM(s) THEN NormOk(FastPath(s)) ELSE Strptime12h(s)

(***************************************************************************)
(* Calls of _to_24h_hhmm on strings put together from parts                *)
(***************************************************************************)
MaxGap == 2

RECURSIVE Spaces(_)
Spaces(n) == IF n = 0 THEN <<>> ELSE <<" ">> \o Spaces(n - 1)

HourNums == (0..13) \cup {23, 24, 25, 99}

MinuteNums == {0, 5, 9, 10, 42, 59, 60, 99}

HourToks ==
    {Dec(h) : h \in HourNums} \cup {Format02d(h) : h \in HourNums}
        \cup {<<>>, <<"1", "2", "3">>, <<"x">>}

MinuteToks ==
    {Format02d(m) : m \in MinuteNums} \cup {Dec(m) : m \in {0, 5, 9}}
        \cup {<<>>, <<"0", "4", "2">>, <<"4", "x">>}

SepToks == {<<":">>, <<".">>}

MeridiemToks ==
    {<<>>, <<"A", "M">>, <<"P", "M">>, <<"a", "m">>, <<"p", "m">>,
     <<"A", "m">>, <<"p", "M">>, <<"X", "M">>, <<"P">>}

LeadToks == {<<>>, <<" ">>}

TrailToks == {<<>>, <<" ">>, <<"x">>}

TimeStrings ==
    { l \o h \o c \o m \o Spaces(g) \o p \o t :
        l \in LeadToks, h \in HourToks, c \in SepToks, m \in MinuteToks,
        g \in 0..MaxGap, p \in MeridiemToks, t \in TrailToks }

(***************************************************************************)
(* Decoded JSON                                                            *)
(***************************************************************************)
Absent == [t |-> "absent", s |-> <<>>]

Null == [t |-> "null", s |-> <<>>]

Str(s) == [t |-> "str", s |-> s]

\* a number, by its decimal digits
Num(ds) == [t |-> "num", s |-> ds]

\* bool(v) of a scalar
Truthy(v) ==
    \/ v.t = "str" /\ v.s # <<>>
    \/ v.t = "num" /\ IntOf(v.s) # 0

\* d.get(key) of a value stored under key, or of no value
DictGet(v) == IF v.t = "absent" THEN Null ELSE v

\* the "time" value of a day: absent, null, a string, or an object
NoTime(tag) == [t |-> tag, sahur |-> Absent, iftar |-> Absent]

TimeObj(sahur, iftar) == [t |-> "obj", sahur |-> sahur, iftar |-> iftar]

\* one element of data.fasting
Day(date, time, hijri, dayno) ==
    [t |-> "obj", date |-> date, time |-> time, hijri_readable |-> hijri,
     day |-> dayno]

\* an element that is no object (a string)
NonDict ==
    [t |-> "str", date |-> Absent, time |-> NoTime("absent"),
     hijri_readable |-> Absent, day |-> Absent]

\* the value at data.fasting; items is what iterating over it yields (the
\* elements of a list, the keys of an object, the characters of a string)
Fasting(tag, items) == [t |-> tag, items |-> items]

Data(tag, fasting) == [t |-> tag, fasting |-> fasting]

Payload(tag, data) == [t |-> tag, data |-> data]

Unset == [t |-> "unset"]

NoResp == [kind |-> "none", status_code |-> 0, json |-> FALSE, body |-> Unset]

NoDetail == [msg |-> "", code |-> 0, body |-> Unset]

NoNorm == [exc |-> "pending", val |-> <<>>]

ReqIdle ==
    /\ pc = "idle"
    /\ api_key = Absent
    /\ query = [lat |-> <<>>, lon |-> <<>>]
    /\ requests = <<>>
    /\ resp = NoResp
    /\ payload = Unset
    /\ fasting_days = Unset
    /\ out = <<>>
    /\ status = 0
    /\ detail = NoDetail

InitNorm ==
    /\ ReqIdle
    /\ time_str \in TimeStrings
    /\ norm = NoNorm
    /\ npc = "call"

NormCall ==
    /\ npc = "call"
    /\ norm' = to_24h_hhmm(time_str)
    /\ npc' = "done"
    /\ UNCHANGED <<time_str, reqVars>>

NextNorm == NormCall

SpecNorm == InitNorm /\ [][NextNorm]_vars

(***************************************************************************)
(* get_ramadan                                                             *)
(***************************************************************************)
\* Variant of KeyMissing: only an unset variable counts as missing
KeyMissing_UnsetOnly(k) == k.t = "absent"

\* not api_key
KeyMissing(k) == ~Truthy(k)

\* Variant of IsSuccess: only a server error counts as a failure
IsSuccess_Below500(sc) == sc < 500

\* what resp.raise_for_status() lets through: a 2xx status
IsSuccess(sc) == sc \in 200..299

\* payload["data"]["fasting"] raises (KeyError or TypeError)
SubscriptRaises(p) ==
    \/ p.t # "obj"
    \/ p.data.t # "obj"
    \/ p.data.fasting.t = "absent"

\* "for day in fasting_days" can start: the value is iterable
Iterable(f) == f.t \in {"list", "obj", "str"}

Skip == [act |-> "skip", rec |-> Unset]

Crash == [act |-> "crash", rec |-> Unset]

Emit(r) == [act |-> "append", rec |-> r]

\* _to_24h_hhmm(v) of a truthy value: a value that is no str has no strip()
Normalize(v) ==
    IF v.t = "str" THEN to_24h_hhmm(v.s) ELSE NormRaise("AttributeError")

\* One pass of the loop body on day
ProcessDay(day) ==
    IF day.t # "obj" THEN Crash                     \* day.get: AttributeError
    ELSE
        LET date_str == DictGet(day.date)
            time_tag == day.time.t                  \* day.get("time", {})
        IN  IF time_tag \notin {"absent", "obj"} THEN Crash  \* time_obj.get
            ELSE
                LET sahur_raw == DictGet(day.time.sahur)
                    iftar_raw == DictGet(day.time.iftar)
                IN  IF ~(Truthy(date_str) /\ Truthy(sahur_raw) /\ Truthy(iftar_raw))
                    THEN Skip
                    ELSE
                        LET sahur_24 == Normalize(sahur_raw)
                            iftar_24 == Normalize(iftar_raw)
                        IN  CASE sahur_24.exc = "ValueError" -> Skip
                              [] sahur_24.exc = "AttributeError" -> Crash
                              [] iftar_24.exc = "ValueError" -> Skip
                              [] iftar_24.exc = "AttributeError" -> Crash
                              [] OTHER ->
                                    Emit([date |-> date_str,
                                          sahur |-> sahur_24.val,
                                          iftar |-> iftar_24.val,
                                          hijri_readable |-> DictGet(day.hijri_readable),
                                          day |-> DictGet(day.day)])

\* Variant of OutAppend: the record is put in front
OutAppend_Front(acc, rec) == <<rec>> \o acc

\* out.append(rec)
OutAppend(acc, rec) == Append(acc, rec)

\* The for loop over items, from the list acc
RECURSIVE RunLoop(_, _)
RunLoop(items, acc) ==
    IF items = <<>> THEN [crashed |-> FALSE, out |-> acc]
    ELSE LET r == ProcessDay(Head(items))
         IN  CASE r.act = "crash" -> [crashed |-> TRUE, out |-> acc]
               [] r.act = "skip" -> RunLoop(Tail(items), acc)
               [] OTHER -> RunLoop(Tail(items), OutAppend(acc, r.rec))

\* Variant of OutIsEmpty: an empty list is returned like any other
OutIsEmpty_Never(o) == FALSE

\* not out
OutIsEmpty(o) == o = <<>>

HTTPException(code, msg, sc, body) ==
    /\ status' = code
    /\ detail' = [msg |-> msg, code |-> sc, body |-> body]
    /\ pc' = "done"

\* An exception nothing catches: the framework answers 500
Unhandled ==
    /\ status' = 500
    /\ detail' = [msg |-> "InternalServerError", code |-> 0, body |-> Unset]
    /\ pc' = "done"

(***************************************************************************)
(* What the upstream may answer                                            *)
(***************************************************************************)
MaxDays == 3

T_0542AM == <<"5", ":", "4", "2", " ", "A", "M">>

T_0548PM == <<"5", ":", "4", "8", " ", "P", "M">>

T_0705 == <<"7", ":", "0", "5">>

T_1748 == <<"1", "7", ":", "4", "8">>

T_1205am == <<"1", "2", ":", "0", "5", " ", "a", "m">>

T_1230PM == <<"1", "2", ":", "3", "0", " ", "P", "M">>

T_2599 == <<"2", "5", ":", "9", "9">>

T_bad == <<"5", ":", "4", "2", " ", "X", "M">>

GoodTime == TimeObj(Str(T_0542AM), Str(T_0548PM))

DayA == Str(<<"a">>)

DayB == Str(<<"b">>)

Hijri == Str(<<"h">>)

Days ==
    { Day(DayA, GoodTime, Hijri, Num(<<"1">>)),
      Day(DayB, TimeObj(Str(T_0705), Str(T_1748)), Absent, Absent),
      Day(DayA, TimeObj(Str(T_1205am), Str(T_1230PM)), Hijri, Num(<<"3">>)),
      Day(DayA, TimeObj(Str(T_2599), Str(T_0548PM)), Hijri, Num(<<"4">>)),
      Day(Absent, GoodTime, Hijri, Num(<<"5">>)),
      Day(Str(<<>>), GoodTime, Hijri, Num(<<"6">>)),
      Day(DayA, NoTime("absent"), Hijri, Num(<<"7">>)),
      Day(DayA, NoTime("null"), Hijri, Num(<<"8">>)),
      Day(DayA, TimeObj(Absent, Str(T_0548PM)), Hijri, Num(<<"9">>)),
      Day(DayA, TimeObj(Str(<<>>), Str(T_0548PM)), Hijri, Num(<<"1", "0">>)),
      Day(DayA, TimeObj(Str(T_bad), Str(T_0548PM)), Hijri, Num(<<"1", "1">>)),
      Day(DayA, TimeObj(Num(<<"5">>), Str(T_0548PM)), Hijri, Num(<<"1", "2">>)),
      Day(DayA, TimeObj(Str(T_0542AM), Absent), Hijri, Num(<<"1", "3">>)),
      Day(DayA, TimeObj(Str(T_0542AM), Str(T_bad)), Hijri, Num(<<"1", "4">>)),
      NonDict }

RECURSIVE SeqsUpTo(_, _)
SeqsUpTo(S, n) ==
    IF n = 0 THEN {<<>>}
    ELSE LET shorter == SeqsUpTo(S, n - 1)
         IN  shorter \cup {Append(q, x) : q \in shorter, x \in S}

DayLists == SeqsUpTo(Days, MaxDays)

ListPayload(items) ==
    Payload("obj", Data("obj", Fasting("list", items)))

NoFasting == Fasting("absent", <<>>)

Payloads ==
    {ListPayload(items) : items \in DayLists}
        \cup { Payload("list", Data("absent", NoFasting)),
               Payload("null", Data("absent", NoFasting)),
               Payload("obj", Data("absent", NoFasting)),
               Payload("obj", Data("null", NoFasting)),
               Payload("obj", Data("list", NoFasting)),
               Payload("obj", Data("obj", NoFasting)),
               Payload("obj", Data("obj", Fasting("null", <<>>))),
               Payload("obj", Data("obj", Fasting("num", <<>>))),
               Payload("obj", Data("obj", Fasting("obj", <<>>))),
               Payload("obj", Data("obj", Fasting("obj", <<NonDict>>))),
               Payload("obj", Data("obj", Fasting("str", <<>>))),
               Payload("obj", Data("obj", Fasting("str", <<NonDict>>))) }

OneGoodDay == ListPayload(<<Day(DayA, GoodTime, Hijri, Num(<<"1">>))>>)

Response(sc, json, body) ==
    [kind |-> "response", status_code |-> sc, json |-> json, body |-> body]

\* client.get raised (no connection, or the 15 s timeout), or a response came:
\* its status, whether its body decodes as JSON, and the decoded body
UpstreamAnswers ==
    { [kind |-> k, status_code |-> 0, json |-> FALSE, body |-> Unset] :
        k \in {"connect_error", "timeout"} }
        \cup {Response(200, TRUE, b) : b \in Payloads}
        \cup {Response(sc, FALSE, Unset) : sc \in {200, 404}}
        \cup {Response(sc, TRUE, b) :
                sc \in {201, 301, 404, 500},
                b \in {OneGoodDay, Payload("obj", Data("absent", NoFasting))}}

ApiKeys == {Absent, Str(<<>>), Str(<<"k">>)}

Queries ==
    { [lat |-> <<"4", "0">>, lon |-> <<"7", "4">>],
      [lat |-> <<"x">>, lon |-> <<>>] }

(***************************************************************************)
(* The /ramadan request                                                    *)
(***************************************************************************)
Init ==
    /\ pc = "start"
    /\ api_key \in ApiKeys
    /\ query \in Queries
    /\ requests = <<>>
    /\ resp = NoResp
    /\ payload = Unset
    /\ fasting_days = Unset
    /\ out = <<>>
    /\ status = 0
    /\ detail = NoDetail
    /\ time_str = <<>>
    /\ norm = NoNorm
    /\ npc = "idle"

\* api_key = os.getenv(...); if not api_key: raise HTTPException(500)
CheckApiKey ==
    /\ pc = "start"
    /\ IF KeyMissing(api_key)
       THEN HTTPException(500, "MissingKey", 0, Unset)
       ELSE /\ pc' = "fetch"
            /\ UNCHANGED <<status, detail>>
    /\ UNCHANGED <<api_key, query, requests, resp, payload, fasting_days, out,
                   normVars>>

\* The outbound GET, raise_for_status, resp.json(), and the two except clauses
Fetch ==
    /\ pc = "fetch"
    /\ \E r \in UpstreamAnswers :
        /\ resp' = r
        /\ requests' = Append(requests,
                              [lat |-> query.lat, lon |-> query.lon,
                               api_key |-> api_key.s])
        /\ CASE r.kind # "response" ->
                    /\ HTTPException(502, "FetchFailed", 0, Unset)
                    /\ UNCHANGED payload
             [] r.kind = "response" /\ ~IsSuccess(r.status_code) ->
                    /\ HTTPException(502, "UpstreamHTTP", r.status_code, r.body)
                    /\ UNCHANGED payload
             [] r.kind = "response" /\ IsSuccess(r.status_code) /\ ~r.json ->
                    /\ HTTPException(502, "FetchFailed", 0, Unset)
                    /\ UNCHANGED payload
             [] OTHER ->
                    /\ payload' = r.body
                    /\ pc' = "extract"
                    /\ UNCHANGED <<status, detail>>
    /\ UNCHANGED <<api_key, query, fasting_days, out, normVars>>

\* fasting_days = payload["data"]["fasting"], any exception answered 502
ExtractFasting ==
    /\ pc = "extract"
    /\ IF SubscriptRaises(payload)
       THEN /\ HTTPException(502, "Shape", 0, Unset)
            /\ UNCHANGED fasting_days
       ELSE /\ fasting_days' = payload.data.fasting
            /\ pc' = "loop"
            /\ UNCHANGED <<status, detail>>
    /\ UNCHANGED <<api_key, query, requests, resp, payload, out, normVars>>

\* out = []; for day in fasting_days: ...
Transform ==
    /\ pc = "loop"
    /\ IF ~Iterable(fasting_days)
       THEN Unhandled /\ UNCHANGED out              \* TypeError: not iterable
       ELSE LET r == RunLoop(fasting_days.items, <<>>)
            IN  /\ out' = r.out
                /\ IF r.crashed
                   THEN Unhandled
                   ELSE pc' = "respond" /\ UNCHANGED <<status, detail>>
    /\ UNCHANGED <<api_key, query, requests, resp, payload, fasting_days,
                   normVars>>

\* if not out: raise HTTPException(502); return out
Respond ==
    /\ pc = "respond"
    /\ IF OutIsEmpty(out)
       THEN HTTPException(502, "Empty", 0, Unset)
       ELSE /\ status' = 200
            /\ pc' = "done"
            /\ UNCHANGED detail
    /\ UNCHANGED <<api_key, query, requests, resp, payload, fasting_days, out,
                   normVars>>

Next == CheckApiKey \/ Fetch \/ ExtractFasting \/ Transform \/ Respond

Spec == Init /\ [][Next]_vars

(***************************************************************************)
(* Properties of _to_24h_hhmm                                              *)
(***************************************************************************)
\* The shape \d{1,2}:\d{2}
ShapeHHMM(s) ==
    \/ Len(s) = 4 /\ s[1] \in Digits /\ s[2] = ":" /\ s[3] \in Digits /\ s[4] \in Digits
    \/ Len(s) = 5 /\ s[1] \in Digits /\ s[2] \in Digits /\ s[3] = ":"
                  /\ s[4] \in Digits /\ s[5] \in Digits

\* The shape "H:MM AM" / "H:MM PM": one or two hour digits, two minute digits,
\* one blank, upper-case AM or PM
Shape12h(s) ==
    /\ Len(s) \in {7, 8}
    /\ ShapeHHMM(SubSeq(s, 1, Len(s) - 3))
    /\ s[Len(s) - 2] = " "
    /\ s[Len(s) - 1] \in {"A", "P"}
    /\ s[Len(s)] = "M"

HourOf(s) == IntOf(SubSeq(s, 1, ColonAt(s) - 1))

MinuteDigits(s) == SubSeq(s, ColonAt(s) + 1, ColonAt(s) + 2)

\* "H:MM AM" / "H:MM PM" with hour 1..12 and minute 00..59
Valid12h(s) ==
    /\ Shape12h(s)
    /\ HourOf(s) \in 1..12
    /\ IntOf(MinuteDigits(s)) \in 0..59

TwoDigits(n) == <<DigitChar(n \div 10), DigitChar(n % 10)>>

Expected24(s) ==
    LET h  == HourOf(s)
        am == s[Len(s) - 1] = "A"
        hh == CASE h = 12 /\ am -> 0
                [] h < 12 /\ am -> h
                [] h = 12 /\ ~am -> 12
                [] h < 12 /\ ~am -> h + 12
    IN  TwoDigits(hh) \o <<":">> \o MinuteDigits(s)

\* C4: for every "H:MM AM" / "H:MM PM" with hour 1..12 and minute 00..59 the
\* call returns the zero-padded 24-hour time: 12 AM is hour 00, 12 PM is hour 12,
\* other PM hours are h + 12, AM hours are unchanged, the minute is unchanged.
C4_Convert12h ==
    (npc = "done" /\ Valid12h(time_str))
        => norm = NormOk(Expected24(time_str))

C4_Witness ==
    /\ npc = "done"
    /\ time_str = <<"1", "2", ":", "0", "5", " ", "A", "M">>
    /\ norm = NormOk(<<"0", "0", ":", "0", "5">>)

\* C5 as stated: every string that has neither the shape \d{1,2}:\d{2} nor the
\* shape "H:MM AM|PM" (upper case, one blank, two minute digits) raises
\* ValueError.
C5_StrictReject ==
    (npc = "done" /\ ~ShapeHHMM(time_str) /\ ~Shape12h(time_str))
        => norm.exc = "ValueError"

\* The 12-hour strings strptime("%I:%M %p") takes: hour 1..12 in one or two
\* digits, minute 0..59 in one or two digits, one or more blanks, AM or PM in any
\* letter case
Lenient12h(s) ==
    \E hl \in 1..2, ml \in 1..2 :
        /\ Len(s) >= hl + ml + 4
        /\ AllDigits(SubSeq(s, 1, hl))
        /\ IntOf(SubSeq(s, 1, hl)) \in 1..12
        /\ s[hl + 1] = ":"
        /\ AllDigits(SubSeq(s, hl + 2, hl + 1 + ml))
        /\ IntOf(SubSeq(s, hl + 2, hl + 1 + ml)) \in 0..59
        /\ AllSpaces(SubSeq(s, hl + ml + 2, Len(s) - 2))
        /\ s[Len(s) - 1] \in {"A", "a", "P", "p"}
        /\ s[Len(s)] \in {"M", "m"}

\* s is blanks, then a string of one of the two accepted forms, then blanks
Accepted(s) ==
    \E i \in 1..(Len(s) + 1), j \in 0..Len(s) :
        /\ AllSpaces(SubSeq(s, 1, i - 1))
        /\ AllSpaces(SubSeq(s, j + 1, Len(s)))
        /\ (ShapeHHMM(SubSeq(s, i, j)) \/ Lenient12h(SubSeq(s, i, j)))

\* C5 amended: every string that, blanks around it removed, has neither the
\* shape \d{1,2}:\d{2} nor the 12-hour form strptime takes (hour 1..12, minute
\* 0..59 in one or two digits, one or more blanks, AM/PM in any letter case)
\* raises ValueError.
C5_Reject ==
    (npc = "done" /\ ~Accepted(time_str)) => norm.exc = "ValueError"

C5_Witness ==
    /\ npc = "done"
    /\ time_str = <<"5", ":", "4", "2", " ", "A", "M", "x">>
    /\ norm.exc = "ValueError"

\* C6: every string of the shape \d{1,2}:\d{2} is returned with its hour and
\* minute digits padded to two digits each, whatever their range; it never fails.
C6_FastPathPassthrough ==
    (npc = "done" /\ ShapeHHMM(time_str))
        => norm = NormOk((IF Len(time_str) = 4 THEN <<"0">> ELSE <<>>) \o time_str)

C6_Witness ==
    /\ npc = "done"
    /\ time_str = <<"2", "5", ":", "9", "9">>
    /\ norm = NormOk(<<"2", "5", ":", "9", "9">>)

(***************************************************************************)
(* Properties of get_ramadan                                               *)
(***************************************************************************)
\* The upstream answered 2xx with a body that decodes as JSON
GoodFetch == resp.kind = "response" /\ resp.status_code \in 200..299 /\ resp.json

\* The decoded body holds a list at data.fasting
HasFastingList(b) ==
    b.t = "obj" /\ b.data.t = "obj" /\ b.data.fasting.t = "list"

UpstreamDays == resp.body.data.fasting.items

\* A non-empty string
NonEmptyStr(v) == v.t = "str" /\ v.s # <<>>

\* A record with a non-empty date and sahur and iftar strings the normaliser takes
WellFormed(d) ==
    /\ d.t = "obj"
    /\ NonEmptyStr(d.date)
    /\ d.time.t = "obj"
    /\ NonEmptyStr(d.time.sahur)
    /\ NonEmptyStr(d.time.iftar)
    /\ to_24h_hhmm(d.time.sahur.s).exc = "none"
    /\ to_24h_hhmm(d.time.iftar.s).exc = "none"

\* The clean record of a well-formed record
CleanOf(d) ==
    [date |-> d.date,
     sahur |-> to_24h_hhmm(d.time.sahur.s).val,
     iftar |-> to_24h_hhmm(d.time.iftar.s).val,
     hijri_readable |-> IF d.hijri_readable.t = "absent" THEN Null ELSE d.hijri_readable,
     day |-> IF d.day.t = "absent" THEN Null ELSE d.day]

\* HH:MM, two digits each, hour 00..23 and minute 00..59
ClockTime(s) ==
    /\ Len(s) = 5
    /\ s[1] \in Digits /\ s[2] \in Digits /\ s[3] = ":"
    /\ s[4] \in Digits /\ s[5] \in Digits
    /\ 10 * DigitVal(s[1]) + DigitVal(s[2]) <= 23
    /\ 10 * DigitVal(s[4]) + DigitVal(s[5]) <= 59

\* C1: every record of a 200 response has a non-empty date, and sahur and iftar
\* of the form HH:MM with hour 00..23 and minute 00..59.
C1_CleanRecords ==
    status = 200 =>
        \A i \in 1..Len(out) :
            /\ Truthy(out[i].date)
            /\ ClockTime(out[i].sahur)
            /\ ClockTime(out[i].iftar)

\* C2: a list of N >= 1 well-formed records gives a 200 response of exactly N
\* records, the i-th built from the i-th upstream record.
C2_AllKeptInOrder ==
    (/\ pc = "done"
     /\ GoodFetch
     /\ HasFastingList(resp.body)
     /\ UpstreamDays # <<>>
     /\ \A i \in 1..Len(UpstreamDays) : WellFormed(UpstreamDays[i]))
        => /\ status = 200
           /\ Len(out) = Len(UpstreamDays)
           /\ \A i \in 1..Len(UpstreamDays) : out[i] = CleanOf(UpstreamDays[i])

C2_Witness ==
    /\ pc = "done"
    /\ status = 200
    /\ GoodFetch
    /\ HasFastingList(resp.body)
    /\ Len(UpstreamDays) = 3
    /\ \A i \in 1..3 : WellFormed(UpstreamDays[i])
    /\ UpstreamDays[1] # UpstreamDays[2]
    /\ UpstreamDays[2] # UpstreamDays[3]
    /\ out[1].date = DayB

\* A record the loop is to drop: an object whose date, time.sahur or time.iftar
\* is missing or empty (the time object may be missing or null), or whose sahur
\* or iftar is a string the normaliser refuses
Malformed(d) ==
    /\ d.t = "obj"
    /\ d.time.t \in {"absent", "null", "obj"}
    /\ \A f \in {d.date, d.time.sahur, d.time.iftar} : f.t \in {"absent", "null", "str"}
    /\ \/ ~NonEmptyStr(d.date)
       \/ d.time.t # "obj"
       \/ ~NonEmptyStr(d.time.sahur)
       \/ ~NonEmptyStr(d.time.iftar)
       \/ to_24h_hhmm(d.time.sahur.s).exc = "ValueError"
       \/ to_24h_hhmm(d.time.iftar.s).exc = "ValueError"

RECURSIVE CleanAll(_)
CleanAll(ds) ==
    IF ds = <<>> THEN <<>>
    ELSE IF WellFormed(Head(ds)) THEN <<CleanOf(Head(ds))>> \o CleanAll(Tail(ds))
         ELSE CleanAll(Tail(ds))

\* C3: in a list of well-formed and malformed records with at least one
\* well-formed record, the malformed ones are dropped without failing the
\* request: the response is 200 and holds the well-formed records, in order.
C3_SilentDrop ==
    (/\ pc = "done"
     /\ GoodFetch
     /\ HasFastingList(resp.body)
     /\ \A i \in 1..Len(UpstreamDays) :
            WellFormed(UpstreamDays[i]) \/ Malformed(UpstreamDays[i])
     /\ \E i \in 1..Len(UpstreamDays) : WellFormed(UpstreamDays[i]))
        => /\ status = 200
           /\ out = CleanAll(UpstreamDays)

\* C7: a decoded body without a list at data.fasting is answered 502 with the
\* shape message, never 200, another status or the empty-result message.
C7_ShapeError ==
    (pc = "done" /\ GoodFetch /\ ~HasFastingList(resp.body))
        => /\ status = 502
           /\ detail = [msg |-> "Shape", code |-> 0, body |-> Unset]

\* C8: when data.fasting is a list and the loop dropped every record of it (or
\* it is empty), the answer is 502 with the empty-result message, which is none
\* of the upstream-error and shape messages; a 200 response is never empty.
C8_EmptyResult ==
    /\ status = 200 => out # <<>>
    /\ (/\ pc = "done"
        /\ GoodFetch
        /\ HasFastingList(resp.body)
        /\ \A i \in 1..Len(UpstreamDays) : ProcessDay(UpstreamDays[i]).act = "skip")
          => /\ status = 502
             /\ detail.msg = "Empty"
             /\ detail.msg \notin {"UpstreamHTTP", "FetchFailed", "Shape"}

C8_Witness ==
    /\ pc = "done"
    /\ GoodFetch
    /\ HasFastingList(resp.body)
    /\ Len(UpstreamDays) = 2
    /\ status = 502
    /\ detail.msg = "Empty"

\* The outbound call failed: it raised, or the status is not 2xx, or the body
\* is no JSON
UpstreamFailed ==
    \/ resp.kind \in {"connect_error", "timeout"}
    \/ resp.kind = "response" /\ resp.status_code \notin 200..299
    \/ resp.kind = "response" /\ ~resp.json

\* C9: with an API key, a failed outbound call (non-2xx status, network failure
\* or timeout, body that is no JSON) is answered 502, for a non-2xx status with
\* the upstream status code in the detail, and its body is never taken as
\* fasting data.
C9_UpstreamError ==
    (Truthy(api_key) /\ UpstreamFailed)
        => /\ pc = "done"
           /\ status = 502
           /\ (resp.kind = "response" /\ resp.status_code \notin 200..299)
                => (detail.msg = "UpstreamHTTP" /\ detail.code = resp.status_code)
           /\ payload = Unset
           /\ fasting_days = Unset
           /\ out = <<>>

C9_Witness ==
    /\ pc = "done"
    /\ resp = Response(404, TRUE, OneGoodDay)
    /\ status = 502
    /\ detail.code = 404

\* C10: the API-key check comes before any outbound call. Without a key the
\* request ends 500 with no outbound request; with a key exactly one GET with
\* lat, lon and api_key is issued, and no outcome leads to a second one.
C10_OneOutboundCall ==
    /\ Len(requests) <= 1
    /\ pc = "start" => requests = <<>>
    /\ ~Truthy(api_key) =>
          /\ requests = <<>>
          /\ pc \in {"start", "done"}
          /\ pc = "done" => status = 500
    /\ (Truthy(api_key) /\ pc \notin {"start", "fetch"}) =>
          requests = <<[lat |-> query.lat, lon |-> query.lon, api_key |-> api_key.s]>>

C10_Witness ==
    /\ pc = "done"
    /\ resp.kind = "timeout"
    /\ Len(requests) = 1
    /\ status = 502

====
